---------------------------- MODULE Spec2Model ----------------------------
(***************************************************************************)
(* A model of three parts of safrs:                                        *)
(*   - http_method_decorator (src/safrs/_api.py), the wrapper around every *)
(*     REST method: commit on success, rollback + abort on an exception;   *)
(*   - the serialization of related ("included") instances:                *)
(*     SAFRSBase._s_jsonapi_encode, SAFRSBase._s_get_related and the class *)
(*     Included (src/safrs/base.py);                                       *)
(*   - the exposure of attributes: _s_check_perm, _s_columns,              *)
(*     _s_relationships and the class- and instance-level _s_jsonapi_attrs *)
(*     (src/safrs/base.py).                                                *)
(* Each part has its own specification over the module's variables; the    *)
(* variables of the other parts keep their initial value.                  *)
(*                                                                         *)
(* Python strings are sequences of one-character strings, so that split,   *)
(* join and startswith are computed, not assumed.                          *)
(***************************************************************************)
EXTENDS Integers, Sequences, FiniteSets, TLC

VARIABLES
    \* ---- http_method_decorator
    pc,         \* position of the wrapper's control
    level,      \* safrs.log.getEffectiveLevel()
    result,     \* the value fun returned (NoValue before)
    exc,        \* the exception being handled (NoValue if none)
    raisedBy,   \* "fun" or "commit": where exc was raised; NoValue if none
    handled,    \* [status_code, message] set by an except clause
    trace,      \* the calls made so far, in order: fun, commit, rollback, abort
    outcome,    \* how the wrapper ended: return, abort or an escaping exception
    \* ---- serialization of related instances
    graph,              \* the database: the set of edges [src, key, dst]
    include_arg,        \* request.args "include": Absent or Attr(csv string)
    exclude_rels,       \* Person.exclude_rels
    enable_relationships, \* get_config("ENABLE_RELATIONSHIPS")
    primary,            \* the primary-data instances still to encode
    ipc,                \* "data", "included", "done" or "error"
    ja_data,            \* g.ja_data
    ja_included,        \* g.ja_included
    included_list,      \* each instance's included_list attribute
    data_out,           \* the encoded primary data, in order
    included_out,       \* Included.encode's result list
    raised,             \* the exception that ended the request, if any
    call,               \* the last call of _s_get_related and the state it found
    \* ---- exposure of attributes
    exclude_attrs,      \* cls.exclude_attrs
    supports_includes,  \* cls.supports_includes
    n_expose,           \* the "expose" attribute of column n
    n_permissions,      \* the "permissions" attribute of column n
    r_hidden,           \* why relationship f is hidden, or "no"
    columns_cache,      \* lru_cache of _s_columns: Absent or Attr(columns)
    attrs_cache,        \* cls._cached_jsonapi_attrs: Absent or Attr(keys)
    ret                 \* what the last operation returned or raised

wvars == <<pc, level, result, exc, raisedBy, handled, trace, outcome>>
ivars == <<graph, include_arg, exclude_rels, enable_relationships, primary, ipc,
           ja_data, ja_included, included_list, data_out, included_out, raised, call>>
avars == <<exclude_attrs, supports_includes, n_expose, n_permissions, r_hidden,
           columns_cache, attrs_cache, ret>>
vars == <<wvars, ivars, avars>>

NoValue == "NoValue"    \* Python's None

\* An attribute that an object may lack: <<>> when absent, <<v>> when present
Absent == <<>>
Attr(v) == <<v>>
Has(a) == a # <<>>
Val(a) == a[1]

-----------------------------------------------------------------------------
(* http_method_decorator                                                   *)

LoggingDEBUG == 10
LogLevels == {10, 20}       \* logging.DEBUG, logging.INFO
Results == {"res1", "res2"}
StatusCodes == {400, 404, 500}
Messages == {"m1", "m2"}

\* The exception classes the except clauses tell apart. The safrs errors carry
\* status_code and message (the first clause reads both without a default);
\* any other exception may or may not have either attribute.
SafrsErrors == {"ValidationError", "GenericError", "NotFoundError"}
Exceptions ==
    [cls : SafrsErrors, status_code : {Attr(c) : c \in StatusCodes},
     message : {Attr(m) : m \in Messages}, str : {"s"}]
    \cup [cls : {"werkzeug.NotFound"}, status_code : {Absent}, message : {Absent}, str : {"s"}]
    \cup [cls : {"Exception"}, status_code : {Attr(c) : c \in StatusCodes} \cup {Absent},
          message : {Attr(m) : m \in Messages} \cup {Absent}, str : {"s"}]

NoException == [cls |-> "None", status_code |-> Absent, message |-> Absent, str |-> ""]
NoOutcome == [kind |-> "none"]
NotHandled == [status_code |-> 0, message |-> ""]

\* result = fun(*args, **kwargs): fun returns a value or raises
RunFun ==
    /\ pc = "call"
    /\ trace' = Append(trace, "fun")
    /\ \/ \E r \in Results :
            /\ result' = r
            /\ pc' = "commit"
            /\ UNCHANGED <<exc, raisedBy>>
       \/ \E e \in Exceptions :
            /\ exc' = e
            /\ raisedBy' = "fun"
            /\ pc' = "except"
            /\ UNCHANGED result
    /\ UNCHANGED <<level, handled, outcome>>
    /\ UNCHANGED <<ivars, avars>>

\* safrs.DB.session.commit(): succeeds or raises
Commit ==
    /\ pc = "commit"
    /\ trace' = Append(trace, "commit")
    /\ \/ /\ pc' = "return"
          /\ UNCHANGED <<exc, raisedBy>>
       \/ \E e \in Exceptions :
            /\ exc' = e
            /\ raisedBy' = "commit"
            /\ pc' = "except"
    /\ UNCHANGED <<level, result, handled, outcome>>
    /\ UNCHANGED <<ivars, avars>>

\* A forgotten "return result": the wrapper returns None
ReturnNone ==
    /\ pc = "return"
    /\ outcome' = [kind |-> "return", value |-> NoValue]
    /\ pc' = "done"
    /\ UNCHANGED <<level, result, exc, raisedBy, handled, trace>>
    /\ UNCHANGED <<ivars, avars>>

\* return result
Return ==
    /\ pc = "return"
    /\ outcome' = [kind |-> "return", value |-> result]
    /\ pc' = "done"
    /\ UNCHANGED <<level, result, exc, raisedBy, handled, trace>>
    /\ UNCHANGED <<ivars, avars>>

\* A first clause that answers 500 whatever the exception's status_code
ExceptSafrs500 ==
    /\ pc = "except"
    /\ exc.cls \in SafrsErrors
    /\ handled' = [status_code |-> 500, message |-> Val(exc.message)]
    /\ pc' = "rollback"
    /\ UNCHANGED <<level, result, exc, raisedBy, trace, outcome>>
    /\ UNCHANGED <<ivars, avars>>

\* except (ValidationError, GenericError, NotFoundError) as exc
ExceptSafrs ==
    /\ pc = "except"
    /\ exc.cls \in SafrsErrors
    /\ handled' = [status_code |-> Val(exc.status_code), message |-> Val(exc.message)]
    /\ pc' = "rollback"
    /\ UNCHANGED <<level, result, exc, raisedBy, trace, outcome>>
    /\ UNCHANGED <<ivars, avars>>

\* except werkzeug.exceptions.NotFound
ExceptNotFound ==
    /\ pc = "except"
    /\ exc.cls = "werkzeug.NotFound"
    /\ handled' = [status_code |-> 404, message |-> "Not Found"]
    /\ pc' = "rollback"
    /\ UNCHANGED <<level, result, exc, raisedBy, trace, outcome>>
    /\ UNCHANGED <<ivars, avars>>

\* The message the last clause chooses: str(exc) only at DEBUG level
GenericMessage(e, lvl) == IF lvl > LoggingDEBUG THEN "Logging Disabled" ELSE e.str

\* except Exception as exc: safrs.log.error(exc.message) reads an attribute
\* that an exception need not have; the AttributeError leaves the wrapper.
ExceptOther ==
    /\ pc = "except"
    /\ exc.cls \notin SafrsErrors \cup {"werkzeug.NotFound"}
    /\ IF ~Has(exc.message)
       THEN /\ outcome' = [kind |-> "raise", cls |-> "AttributeError"]
            /\ pc' = "done"
            /\ UNCHANGED handled
       ELSE /\ handled' = [status_code |-> IF Has(exc.status_code)
                                           THEN Val(exc.status_code) ELSE 500,
                           message |-> GenericMessage(exc, level)]
            /\ pc' = "rollback"
            /\ UNCHANGED outcome
    /\ UNCHANGED <<level, result, exc, raisedBy, trace>>
    /\ UNCHANGED <<ivars, avars>>

\* safrs.DB.session.rollback()
Rollback ==
    /\ pc = "rollback"
    /\ trace' = Append(trace, "rollback")
    /\ pc' = "abort"
    /\ UNCHANGED <<level, result, exc, raisedBy, handled, outcome>>
    /\ UNCHANGED <<ivars, avars>>

\* abort(status_code, errors=[dict(detail=message)])
Abort ==
    /\ pc = "abort"
    /\ trace' = Append(trace, "abort")
    /\ outcome' = [kind |-> "abort", status_code |-> handled.status_code,
                   errors |-> <<[detail |-> handled.message]>>]
    /\ pc' = "done"
    /\ UNCHANGED <<level, result, exc, raisedBy, handled>>
    /\ UNCHANGED <<ivars, avars>>

NextWrapper ==
    \/ RunFun
    \/ Commit
    \/ Return
    \/ ExceptSafrs
    \/ ExceptNotFound
    \/ ExceptOther
    \/ Rollback
    \/ Abort


(* Properties of http_method_decorator                                     *)

Raised == raisedBy # NoValue
AbortWith(code, message) ==
    [kind |-> "abort", status_code |-> code, errors |-> <<[detail |-> message]>>]

\* C1: every exception raised by the wrapped method or by the commit ends in
\* a rollback followed by an abort; no other exception leaves the wrapper.
C1_AllExceptionsConverted ==
    (pc = "done" /\ Raised) =>
        /\ outcome.kind = "abort"
        /\ \E i, j \in 1..Len(trace) :
              i < j /\ trace[i] = "rollback" /\ trace[j] = "abort"

\* C2: when the method returns and the commit succeeds, the wrapper has
\* called the method, then committed exactly once, done no rollback and no
\* abort, and returns the method's result.
C2_SuccessCommitsOnce ==
    (pc = "done" /\ ~Raised) =>
        /\ trace = <<"fun", "commit">>
        /\ outcome = [kind |-> "return", value |-> result]
        /\ result \in Results

C2_Witness == pc = "done" /\ ~Raised /\ outcome.kind = "return"

\* C3: a safrs error raised by the method aborts with its own status_code and
\* message, a werkzeug NotFound with 404 and "Not Found"; the session is
\* rolled back before the abort and never committed.
C3_KnownErrors ==
    (pc = "done" /\ raisedBy = "fun") =>
        /\ exc.cls \in SafrsErrors =>
              /\ outcome = AbortWith(Val(exc.status_code), Val(exc.message))
              /\ trace = <<"fun", "rollback", "abort">>
        /\ exc.cls = "werkzeug.NotFound" =>
              /\ outcome = AbortWith(404, "Not Found")
              /\ trace = <<"fun", "rollback", "abort">>

C3_Witness ==
    /\ pc = "done"
    /\ raisedBy = "fun"
    /\ exc.cls = "NotFoundError"
    /\ outcome.kind = "abort"
    /\ outcome.status_code = 404

-----------------------------------------------------------------------------
(* Python string operations, on sequences of characters                    *)

RECURSIVE Split(_, _)
\* str.split(sep) for a one-character sep: "".split(",") is [""]
Split(s, sep) ==
    IF \A k \in 1..Len(s) : s[k] # sep
    THEN <<s>>
    ELSE LET k == CHOOSE k \in 1..Len(s) :
                     s[k] = sep /\ \A h \in 1..(k - 1) : s[h] # sep
         IN  <<SubSeq(s, 1, k - 1)>> \o Split(SubSeq(s, k + 1, Len(s)), sep)

RECURSIVE Join(_, _)
\* sep.join(parts)
Join(parts, sep) ==
    IF parts = <<>> THEN <<>>
    ELSE IF Len(parts) = 1 THEN parts[1]
    ELSE parts[1] \o <<sep>> \o Join(Tail(parts), sep)

Range(seq) == {seq[k] : k \in 1..Len(seq)}

\* str.startswith(prefix)
StartsWith(s, prefix) ==
    Len(prefix) <= Len(s) /\ SubSeq(s, 1, Len(prefix)) = prefix

-----------------------------------------------------------------------------
(* The model classes: Person with the relationships f (friends, to Person), *)
(* fb (books, to Book) and m (mentor, to Person); Book with none.           *)

Persons == {"p1", "p2"}
Books == {"b1"}
Instances == Persons \cup Books
ClassOf(i) == IF i \in Persons THEN "Person" ELSE "Book"

F == <<"f">>
FB == <<"f", "b">>
M == <<"m">>
X == <<"x">>                            \* the name of no relationship
INCLUDE_ALL == <<"+", "a", "l", "l">>   \* safrs.SAFRS.INCLUDE_ALL
DEFAULT_INCLUDED == <<>>                \* safrs.SAFRS.DEFAULT_INCLUDED

\* cls.__mapper__.relationships, in the mapper's order
MapperRelationships(cls) ==
    IF cls = "Person"
    THEN << [key |-> F, direction |-> "MANYTOMANY", target |-> "Person"],
            [key |-> FB, direction |-> "ONETOMANY", target |-> "Book"],
            [key |-> M, direction |-> "MANYTOONE", target |-> "Person"] >>
    ELSE << >>

\* _s_relationships: the mapper's relationships that _s_check_perm lets
\* through; in this part a relationship is hidden by exclude_rels only
s_relationships(inst) ==
    SelectSeq(MapperRelationships(ClassOf(inst)), LAMBDA rel : rel.key \notin exclude_rels)

RelKeys(inst) == {s_relationships(inst)[k].key : k \in 1..Len(s_relationships(inst))}

\* getattr(self, rel_name): the related instances (at most one if MANYTOONE)
Related(inst, key) == {e.dst : e \in {d \in graph : d.src = inst /\ d.key = key}}

\* Included.__init__: sets instance.included_list and adds it to g.ja_included.
\* st is [inc: g.ja_included, lists: the included_list attributes]
IncludedInit(st, instance, next_included_list) ==
    [inc |-> st.inc \cup {instance},
     lists |-> [st.lists EXCEPT ![instance] =
                   Attr([k \in 1..Len(next_included_list) |->
                            Join(next_included_list[k], ".")])]]

RECURSIVE IncludeAll(_, _, _)
\* for rel_item in items: data.append(Included(rel_item, next_included_list))
IncludeAll(st, items, next_included_list) ==
    IF items = {} THEN st
    ELSE LET item == CHOOSE i \in items : TRUE
         IN  IncludeAll(IncludedInit(st, item, next_included_list),
                        items \ {item}, next_included_list)

\* included_list of _s_get_related: the instance's attribute if Included set
\* it, the request's include parameter otherwise
IncludedListOf(inst) ==
    IF Has(included_list[inst])
    THEN Val(included_list[inst])
    ELSE SelectSeq(Split(IF Has(include_arg) THEN Val(include_arg) ELSE DEFAULT_INCLUDED, ","),
                LAMBDA inc : inc # <<>>)

IncludedRels(list) == {Split(list[k], ".")[1] : k \in 1..Len(list)}
InList(x, list) == \E k \in 1..Len(list) : list[k] = x

\* A check against the mapper's relationships instead of the exposed ones
InvalidRelationshipOfMapper(inst) ==
    \E rel_name \in IncludedRels(IncludedListOf(inst)) :
        /\ rel_name # INCLUDE_ALL
        /\ \A k \in 1..Len(MapperRelationships(ClassOf(inst))) :
              MapperRelationships(ClassOf(inst))[k].key # rel_name

\* the check of the first loop: some requested relationship is unknown
InvalidRelationship(inst) ==
    \E rel_name \in IncludedRels(IncludedListOf(inst)) :
        rel_name # INCLUDE_ALL /\ rel_name \notin RelKeys(inst)

\* One iteration of the second loop: the relationship's "data" and the
\* effect of the Included objects created for it
RelStep(st, inst, list, relationship) ==
    LET rel_name == relationship.key
        many == relationship.direction \in {"ONETOMANY", "MANYTOMANY"}
        wanted == rel_name \in IncludedRels(list) \/ InList(INCLUDE_ALL, list)
        matching == SelectSeq(list, LAMBDA item : StartsWith(item, rel_name \o <<".">>))
        next_included_list ==
            [k \in 1..Len(matching) |-> Tail(Split(matching[k], "."))]
        items == IF wanted /\ (~many \/ enable_relationships)
                 THEN Related(inst, rel_name) ELSE {}
        after == IncludeAll([inc |-> st.inc, lists |-> st.lists], items, next_included_list)
    IN  [inc |-> after.inc,
         lists |-> after.lists,
         rels |-> st.rels \cup {[key |-> rel_name, many |-> many, data |-> items]}]

RECURSIVE RelLoop(_, _, _, _)
RelLoop(st, inst, list, rels) ==
    IF rels = <<>> THEN st
    ELSE RelLoop(RelStep(st, inst, list, rels[1]), inst, list, Tail(rels))

\* _s_get_related, called with g.ja_included = inc: [err, rels, inc, lists]:
\* whether GenericError(400) is raised, the relationships dictionary, and
\* g.ja_included and the included_list attributes afterwards
s_get_related(inst, inc) ==
    IF InvalidRelationship(inst)
    THEN [err |-> TRUE, rels |-> {}, inc |-> inc, lists |-> included_list]
    ELSE LET st == RelLoop([inc |-> inc, lists |-> included_list, rels |-> {}],
                           inst, IncludedListOf(inst), s_relationships(inst))
         IN  [err |-> FALSE, rels |-> st.rels, inc |-> st.inc, lists |-> st.lists]

\* The include parameters tried: the comma-separated lists of at most
\* MaxPaths of these paths (the empty string stands for "a,,b" and "a,")
MaxPaths == 1
MaxEdges == 2
RelNames == {F, FB, M}
Paths ==
    RelNames
    \cup {Join(<<a, b>>, ".") : a \in RelNames, b \in RelNames}
    \cup {INCLUDE_ALL, X, <<>>}

RECURSIVE SeqOf(_)
\* some sequence of the elements of a set
SeqOf(set) ==
    IF set = {} THEN <<>>
    ELSE LET x == CHOOSE x \in set : TRUE IN <<x>> \o SeqOf(set \ {x})

IncludeArgs ==
    {Absent} \cup
    {Attr(Join(SeqOf(ps), ",")) : ps \in {q \in SUBSET Paths : Cardinality(q) <= MaxPaths}}

\* The databases tried: at most MaxEdges edges, each from an instance along a
\* relationship of its class to an instance of the target class, and at most
\* one along a MANYTOONE relationship
EdgesOf(inst) ==
    LET rels == MapperRelationships(ClassOf(inst))
    IN  UNION {[src : {inst}, key : {rels[k].key},
                dst : {i \in Instances : ClassOf(i) = rels[k].target}] : k \in 1..Len(rels)}
AllEdges == UNION {EdgesOf(i) : i \in Instances}
Graphs ==
    {g \in SUBSET AllEdges :
        /\ Cardinality(g) <= MaxEdges
        /\ \A d, e \in g : (d.src = e.src /\ d.key = M /\ e.key = M) => d = e}

\* The primary data: one Person or both, in either order
PrimaryData == {<<"p1">>, <<"p2">>, <<"p1", "p2">>, <<"p2", "p1">>}

NoError == [cls |-> "None", status_code |-> 0]

NoCall == [instance |-> NoValue]
\* _s_get_related(instance) is called: the include list it works with and
\* g.ja_included, the included_list attributes and the output before it
CallOf(instance, inc) ==
    [instance |-> instance, list |-> IncludedListOf(instance), inc |-> inc,
     lists |-> included_list, data_out |-> data_out, included_out |-> included_out]

\* g.ja_data.add(self) at the end of _s_jsonapi_encode
EncodeAddsToData(inst) == ja_data \cup {inst}

\* The encoder serializes the next primary-data instance: _s_jsonapi_encode
EncodePrimary ==
    /\ ipc = "data"
    /\ primary # <<>>
    /\ call' = CallOf(Head(primary), ja_included)
    /\ LET inst == Head(primary)
           rel == s_get_related(inst, ja_included)
       IN  IF rel.err
           THEN /\ raised' = [cls |-> "GenericError", status_code |-> 400]
                /\ ipc' = "error"
                /\ UNCHANGED <<primary, ja_data, ja_included, included_list, data_out>>
           ELSE /\ ja_included' = rel.inc
                /\ included_list' = rel.lists
                /\ ja_data' = EncodeAddsToData(inst)
                /\ data_out' = Append(data_out, [instance |-> inst, relationships |-> rel.rels])
                /\ primary' = Tail(primary)
                /\ UNCHANGED <<raised, ipc>>
    /\ UNCHANGED <<graph, include_arg, exclude_rels, enable_relationships, included_out>>
    /\ UNCHANGED <<wvars, avars>>

\* The encoder reaches the "included" member: Included.encode starts
StartIncluded ==
    /\ ipc = "data"
    /\ primary = <<>>
    /\ ipc' = "included"
    /\ UNCHANGED <<graph, include_arg, exclude_rels, enable_relationships, primary,
                   ja_data, ja_included, included_list, data_out, included_out, raised,
                   call>>
    /\ UNCHANGED <<wvars, avars>>

\* A test that forgets g.ja_data: "instance in already_included" alone, and
\* already_included is always empty
SkipAlreadyIncludedOnly(instance) == FALSE

\* the test of Included.encode's loop: skip the popped instance
SkipIncluded(instance) == instance \in ja_data

\* One iteration of Included.encode's loop: pop any instance, skip it or
\* serialize it (already_included stays empty: nothing is ever added to it)
IncludedEncodeStep ==
    /\ ipc = "included"
    /\ ja_included # {}
    /\ \E instance \in ja_included :
          IF SkipIncluded(instance)
          THEN /\ ja_included' = ja_included \ {instance}
               /\ UNCHANGED <<ja_data, included_list, included_out, raised, ipc, call>>
          ELSE LET rel == s_get_related(instance, ja_included \ {instance})
               IN  IF rel.err
                   THEN /\ raised' = [cls |-> "GenericError", status_code |-> 400]
                        /\ ipc' = "error"
                        /\ ja_included' = ja_included \ {instance}
                        /\ call' = CallOf(instance, ja_included \ {instance})
                        /\ UNCHANGED <<ja_data, included_list, included_out>>
                   ELSE /\ ja_included' = rel.inc
                        /\ call' = CallOf(instance, ja_included \ {instance})
                        /\ included_list' = rel.lists
                        /\ ja_data' = EncodeAddsToData(instance)
                        /\ included_out' = Append(included_out,
                              [instance |-> instance, relationships |-> rel.rels])
                        /\ UNCHANGED <<raised, ipc>>
    /\ UNCHANGED <<graph, include_arg, exclude_rels, enable_relationships, primary, data_out>>
    /\ UNCHANGED <<wvars, avars>>

\* Included.encode's loop ends: return result
IncludedReturn ==
    /\ ipc = "included"
    /\ ja_included = {}
    /\ ipc' = "done"
    /\ UNCHANGED <<graph, include_arg, exclude_rels, enable_relationships, primary,
                   ja_data, ja_included, included_list, data_out, included_out, raised,
                   call>>
    /\ UNCHANGED <<wvars, avars>>

NextInclude ==
    \/ EncodePrimary
    \/ StartIncluded
    \/ IncludedEncodeStep
    \/ IncludedReturn

-----------------------------------------------------------------------------
(* Properties of the serialization of related instances                    *)

Serialized(out) == {out[k].instance : k \in 1..Len(out)}

\* C4: Included.encode's result holds each instance at most once and no
\* instance of the primary data, whatever the order of the pops and whatever
\* cycles the relationships form.
C4_IncludedOnceNotPrimary ==
    /\ \A i, j \in 1..Len(included_out) :
          i # j => included_out[i].instance # included_out[j].instance
    /\ Serialized(included_out) \cap Serialized(data_out) = {}

\* Included.encode returned a non-empty result although an included instance
\* points back to a serialized one (a cycle or a self-reference)
C4_Witness ==
    /\ ipc = "done"
    /\ \E k \in 1..Len(included_out) :
          \E rel \in included_out[k].relationships :
              rel.data \cap (Serialized(data_out) \cup Serialized(included_out)) # {}

RECURSIVE ReachedAlong(_, _)
\* the instances met from the instances `from` along the relationship names segs
ReachedAlong(from, segs) ==
    IF segs = <<>> THEN {}
    ELSE LET next == UNION {Related(i, segs[1]) : i \in from}
         IN  next \cup ReachedAlong(next, Tail(segs))

\* the include paths of the request, each as its sequence of names
RequestedPaths ==
    IF Has(include_arg)
    THEN {Split(path, ".") : path \in {q \in Range(Split(Val(include_arg), ",")) : q # <<>>}}
    ELSE {}

\* C5: when the request succeeds, every instance reachable from a primary-data
\* instance along a requested include path is serialized, in the included
\* output or in the primary data.
C5_AllReachableSerialized ==
    (ipc = "done" /\ enable_relationships) =>
        \A segs \in RequestedPaths :
            ReachedAlong(Serialized(data_out), segs)
                \subseteq Serialized(data_out) \cup Serialized(included_out)

\* the first segment of a path: its characters before the first "."
FirstSegment(path) ==
    IF \E k \in 1..Len(path) : path[k] = "."
    THEN SubSeq(path, 1, (CHOOSE k \in 1..Len(path) :
                            path[k] = "." /\ \A h \in 1..(k - 1) : path[h] # ".") - 1)
    ELSE path

\* the relationships of the instance that are exposed
ExposedRelationships(inst) ==
    IF ClassOf(inst) = "Person" THEN {F, FB, M} \ exclude_rels ELSE {}

CallWasInvalid ==
    /\ call # NoCall
    /\ \E k \in 1..Len(call.list) :
          /\ FirstSegment(call.list[k]) # INCLUDE_ALL
          /\ FirstSegment(call.list[k]) \notin ExposedRelationships(call.instance)

-----------------------------------------------------------------------------
(* The exposure of attributes. The model class has the columns id, n, h    *)
(* (attribute _h) and e, the relationships r and _g and the jsonapi_attrs   *)
(* j and _k; what varies is exclude_attrs, supports_includes, the flags of  *)
(* column n and of relationship r.                                          *)

ColId == <<"i", "d">>
ColN == <<"n">>
ColH == <<"h">>
AttrH == <<"_", "h">>
ColE == <<"e">>
RelR == <<"r">>
RelG == <<"_", "g">>
AttrJ == <<"j">>
AttrK == <<"_", "k">>
Unknown == <<"z", "z">>
AllNames == {ColId, ColN, AttrH, ColE, RelR, RelG, AttrJ, AttrK, Unknown}

RW == <<"r", "w">>

\* cls.__mapper__.columns: each column's name and the attribute it is mapped to
MapperColumns ==
    { [name |-> ColId, attr |-> ColId],
      [name |-> ColN, attr |-> ColN],
      [name |-> ColH, attr |-> AttrH],
      [name |-> ColE, attr |-> ColE] }

\* getattr(column, "expose", True) and getattr(column, "permissions", "rw")
ColumnExpose(c) == IF c.name = ColN THEN n_expose ELSE TRUE
ColumnPermissions(c) == IF c.name = ColN THEN n_permissions ELSE RW

\* the keys of cls.__mapper__.relationships
ClassRelationships == {RelR, RelG}

\* what _s_check_perm reads of a relationship: rel.key in cls.exclude_rels,
\* rel.mapper.class_._s_expose and rel.expose
RelExcluded(key) == key = RelR /\ r_hidden = "exclude_rels"
RelTargetExposed(key) == ~(key = RelR /\ r_hidden = "target")
RelExpose(key) == ~(key = RelR /\ r_hidden = "expose")

\* the names whose value in cls.__dict__ is a jsonapi_attr
JsonapiAttrs == {AttrJ, AttrK}

\* colname_to_attrname: the attribute whose column has this name
colname_to_attrname(col_name) ==
    (CHOOSE c \in MapperColumns : c.name = col_name).attr

\* permission in getattr(column, "permissions", "rw")
InString(ch, str) == \E k \in 1..Len(str) : str[k] = ch

Returns(v) == [raised |-> FALSE, value |-> v]
RaisesValidationError == [raised |-> TRUE, value |-> FALSE]

\* the two tests that open _s_check_perm
HiddenByName(property_name) ==
    \/ StartsWith(property_name, <<"_">>)
    \/ property_name \in exclude_attrs

\* the class-level _s_check_perm: what it returns, or that it raises
s_check_perm(property_name, permission) ==
    IF HiddenByName(property_name) THEN Returns(FALSE)
    ELSE IF supports_includes /\ property_name \in ClassRelationships
    THEN Returns(/\ ~RelExcluded(property_name)
                 /\ RelTargetExposed(property_name)
                 /\ RelExpose(property_name))
    ELSE IF \E c \in MapperColumns : colname_to_attrname(c.name) = property_name
    THEN LET c == CHOOSE c \in MapperColumns : colname_to_attrname(c.name) = property_name
         IN  Returns(ColumnExpose(c) /\ InString(permission, ColumnPermissions(c)))
    ELSE IF property_name \in JsonapiAttrs THEN Returns(TRUE)
    ELSE RaisesValidationError

\* the filter of _s_columns in a request context
ColumnReadable(c) == s_check_perm(colname_to_attrname(c.name), "r").value

\* _s_columns computed (a cache miss): the names of the columns returned
ComputeColumns(ctx) ==
    IF ctx THEN {c.name : c \in {d \in MapperColumns : ColumnReadable(d)}}
    ELSE {c.name : c \in MapperColumns}

\* _s_columns behind its lru_cache, keyed by the class alone
s_columns(ctx) ==
    IF Has(columns_cache) THEN Val(columns_cache) ELSE ComputeColumns(ctx)

\* _s_relationships: the keys, or the ValidationError of _s_check_perm
s_relationships_keys ==
    IF \E key \in ClassRelationships : s_check_perm(key, "r").raised
    THEN RaisesValidationError
    ELSE Returns({key \in ClassRelationships : s_check_perm(key, "r").value})

\* the second loop of the class-level _s_jsonapi_attrs
JsonapiAttrKeys == JsonapiAttrs

\* the class-level _s_jsonapi_attrs computed (a cache miss): its keys
ComputeClassAttrs(ctx) ==
    LET passing == {a \in {colname_to_attrname(c) : c \in s_columns(ctx)} :
                        s_check_perm(a, "r").value}
        tested == passing \ {ColId}     \* "attr_name not in cls._s_relationships"
        rels == s_relationships_keys
    IN  IF tested # {} /\ rels.raised
        THEN RaisesValidationError
        ELSE Returns((tested \ rels.value) \cup JsonapiAttrKeys)

\* the class-level _s_jsonapi_attrs behind cls._cached_jsonapi_attrs
class_jsonapi_attrs(ctx) ==
    IF Has(attrs_cache) THEN Returns(Val(attrs_cache)) ELSE ComputeClassAttrs(ctx)

\* Fields that ignore the request's sparse fieldset
FieldsIgnoringRequest(ctx, requested, class_keys) == class_keys

\* fields of the instance-level _s_jsonapi_attrs: request.fields' entry for
\* the class if there is one (requested), the class-level keys otherwise
FieldsOf(ctx, requested, class_keys) ==
    IF ctx /\ Has(requested) THEN Val(requested) ELSE class_keys

NoAttrValue == <<>>     \* attr_val = ""
AttrValue == <<"v">>    \* getattr(self, attr)

\* the instance-level _s_jsonapi_attrs (to_dict): the dictionary as a set of
\* [key, value]; unencodable are the attributes whose value json.dumps rejects
to_dict(ctx, requested, class_keys, unencodable) ==
    LET fields == FieldsOf(ctx, requested, class_keys)
        ja_attr_names == {name \in class_keys : s_check_perm(name, "r").value}
        dropped == IF ctx THEN unencodable \cap ja_attr_names ELSE {}
    IN  {[key |-> attr,
          value |-> IF attr \in ja_attr_names THEN AttrValue ELSE NoAttrValue] :
            attr \in fields \ dropped}

MaxFields == 1
RECURSIVE SubsetsUpTo(_, _)
\* the subsets of a set with at most k elements
SubsetsUpTo(set, k) ==
    IF k = 0 THEN {{}}
    ELSE SubsetsUpTo(set, k - 1)
         \cup {q \cup {x} : q \in SubsetsUpTo(set, k - 1), x \in set}

\* the field names a client asks for: a column, an attribute that starts
\* with an underscore, a column and a jsonapi_attr that exclude_attrs may
\* list, and a name the class does not have
RequestNames == {ColN, AttrH, ColE, AttrJ, Unknown}

\* request.fields.get(class name): absent, or at most MaxFields names
RequestedFields == {Absent} \cup {Attr(fs) : fs \in SubsetsUpTo(RequestNames, MaxFields)}

NoRet == [op |-> "none"]

config == <<exclude_attrs, supports_includes, n_expose, n_permissions, r_hidden>>

\* cls._s_check_perm(name, permission)
CheckPermCall ==
    /\ \E name \in AllNames, permission \in {"r", "w"} :
          ret' = [op |-> "check_perm", name |-> name, permission |-> permission,
                  raised |-> s_check_perm(name, permission).raised,
                  value |-> s_check_perm(name, permission).value]
    /\ UNCHANGED <<config, columns_cache, attrs_cache>>
    /\ UNCHANGED <<wvars, ivars>>

\* cls._s_columns, inside (ctx) or outside a request context
ColumnsCall ==
    /\ \E ctx \in BOOLEAN :
          /\ ret' = [op |-> "columns", ctx |-> ctx, raised |-> FALSE,
                     columns |-> s_columns(ctx)]
          /\ columns_cache' = Attr(s_columns(ctx))
    /\ UNCHANGED <<config, attrs_cache>>
    /\ UNCHANGED <<wvars, ivars>>

\* cls._s_relationships
RelationshipsCall ==
    /\ ret' = [op |-> "relationships", raised |-> s_relationships_keys.raised,
               keys |-> s_relationships_keys.value]
    /\ UNCHANGED <<config, columns_cache, attrs_cache>>
    /\ UNCHANGED <<wvars, ivars>>

\* what a call of the class-level _s_jsonapi_attrs that returned or raised
\* class_attrs leaves in the caches
AttrsCachesAfter(ctx, class_attrs) ==
    [columns |-> IF Has(attrs_cache) THEN columns_cache ELSE Attr(s_columns(ctx)),
     attrs |-> IF class_attrs.raised THEN attrs_cache ELSE Attr(class_attrs.value)]

\* cls._s_jsonapi_attrs, inside (ctx) or outside a request context
ClassAttrsCall ==
    /\ \E ctx \in BOOLEAN :
          LET class_attrs == class_jsonapi_attrs(ctx)
              caches == AttrsCachesAfter(ctx, class_attrs)
          IN  /\ ret' = [op |-> "class_attrs", ctx |-> ctx,
                         raised |-> class_attrs.raised, keys |-> class_attrs.value]
              /\ columns_cache' = caches.columns
              /\ attrs_cache' = caches.attrs
    /\ UNCHANGED config
    /\ UNCHANGED <<wvars, ivars>>

\* instance.to_dict(), with request.fields' entry for the class (requested)
ToDictCall ==
    /\ \E ctx \in BOOLEAN :
          LET class_attrs == class_jsonapi_attrs(ctx)
              caches == AttrsCachesAfter(ctx, class_attrs)
          IN  \E requested \in RequestedFields, unencodable \in {{}, {ColE}} :
                /\ ctx \/ (~Has(requested) /\ unencodable = {})
                /\ ret' = [op |-> "to_dict", ctx |-> ctx, requested |-> requested,
                           raised |-> class_attrs.raised,
                           class_keys |-> class_attrs.value,
                           dict |-> IF class_attrs.raised THEN {}
                                    ELSE to_dict(ctx, requested, class_attrs.value,
                                                 unencodable)]
                /\ columns_cache' = caches.columns
                /\ attrs_cache' = caches.attrs
    /\ UNCHANGED config
    /\ UNCHANGED <<wvars, ivars>>

NextAttrs ==
    \/ CheckPermCall
    \/ ColumnsCall
    \/ RelationshipsCall
    \/ ClassAttrsCall
    \/ ToDictCall

-----------------------------------------------------------------------------
(* Properties of the exposure of attributes                                *)

Keys(dict) == {kv.key : kv \in dict}

\* C7: in a request that restricts the fields of the instance's type, the
\* keys of to_dict's dictionary are among the requested field names.
C7_SparseFieldsets ==
    (ret.op = "to_dict" /\ ~ret.raised /\ ret.ctx /\ Has(ret.requested)) =>
        Keys(ret.dict) \subseteq Val(ret.requested)

\* a request for some of the class's fields, not all, answered with a value
C7_Witness ==
    /\ ret.op = "to_dict"
    /\ ~ret.raised
    /\ ret.ctx
    /\ Has(ret.requested)
    /\ ret.class_keys \ Val(ret.requested) # {}
    /\ \E kv \in ret.dict : kv.value = AttrValue

\* C8: every key of to_dict's dictionary is a key of the class-level
\* _s_jsonapi_attrs for which the read permission check holds.
C8_OnlyExposedKeys ==
    (ret.op = "to_dict" /\ ~ret.raised) =>
        \A key \in Keys(ret.dict) :
            key \in ret.class_keys /\ s_check_perm(key, "r") = Returns(TRUE)

\* a property whose name starts with an underscore or is in exclude_attrs
Hidden(name) == name[1] = "_" \/ name \in exclude_attrs

C9_CheckPermFalse ==
    (ret.op = "check_perm" /\ Hidden(ret.name)) => (~ret.raised /\ ~ret.value)
C9_NotInColumns ==
    (ret.op = "columns" /\ ret.ctx) =>
        \A col \in ret.columns : ~Hidden(colname_to_attrname(col))
C9_NotInRelationships ==
    (ret.op = "relationships" /\ ~ret.raised) => \A key \in ret.keys : ~Hidden(key)
C9_NotInJsonapiAttrs ==
    (ret.op = "class_attrs" /\ ~ret.raised) => \A key \in ret.keys : ~Hidden(key)

\* C9: _s_check_perm returns False, for "r" and for "w", for every property
\* whose name starts with an underscore or is listed in exclude_attrs; no
\* such property is in _s_columns (in a request context), in
\* _s_relationships or in _s_jsonapi_attrs.
C9_HiddenNeverExposed ==
    /\ C9_CheckPermFalse
    /\ C9_NotInColumns
    /\ C9_NotInRelationships
    /\ C9_NotInJsonapiAttrs

-----------------------------------------------------------------------------
(* The specifications: one per part, the other parts idle                  *)

\* A call of a wrapped REST method; the other parts idle
InitWrapper ==
    /\ pc = "call"
    /\ level \in LogLevels
    /\ result = NoValue
    /\ exc = NoException
    /\ raisedBy = NoValue
    /\ handled = NotHandled
    /\ trace = <<>>
    /\ outcome = NoOutcome
    \* the other parts, idle
    /\ graph = {}
    /\ include_arg = Absent
    /\ exclude_rels = {}
    /\ enable_relationships = TRUE
    /\ primary = <<>>
    /\ ipc = "idle"
    /\ ja_data = {}
    /\ ja_included = {}
    /\ included_list = [i \in Instances |-> Absent]
    /\ data_out = <<>>
    /\ included_out = <<>>
    /\ raised = NoError
    /\ call = NoCall
    /\ exclude_attrs = {}
    /\ supports_includes = TRUE
    /\ n_expose = TRUE
    /\ n_permissions = RW
    /\ r_hidden = "no"
    /\ columns_cache = Absent
    /\ attrs_cache = Absent
    /\ ret = NoRet

SpecWrapper == InitWrapper /\ [][NextWrapper]_vars

\* A request that serializes primary data and what it includes, for every
\* database, include parameter and configuration within the bounds
InitInclude ==
    /\ graph \in Graphs
    /\ include_arg \in IncludeArgs
    /\ exclude_rels \in {{}, {FB}}
    /\ enable_relationships \in (IF exclude_rels = {} THEN BOOLEAN ELSE {TRUE})
    /\ primary \in PrimaryData
    /\ ipc = "data"
    /\ ja_data = {}
    /\ ja_included = {}
    /\ included_list = [i \in Instances |-> Absent]
    /\ data_out = <<>>
    /\ included_out = <<>>
    /\ raised = NoError
    /\ call = NoCall
    \* the other parts, idle
    /\ pc = "idle"
    /\ level = LoggingDEBUG
    /\ result = NoValue
    /\ exc = NoException
    /\ raisedBy = NoValue
    /\ handled = NotHandled
    /\ trace = <<>>
    /\ outcome = NoOutcome
    /\ exclude_attrs = {}
    /\ supports_includes = TRUE
    /\ n_expose = TRUE
    /\ n_permissions = RW
    /\ r_hidden = "no"
    /\ columns_cache = Absent
    /\ attrs_cache = Absent
    /\ ret = NoRet

SpecInclude == InitInclude /\ [][NextInclude]_vars

\* A class, for every configuration tried, with its caches empty
InitAttrs ==
    /\ exclude_attrs \in {{}, {AttrJ}, {ColE, RelR, AttrJ}}
    /\ supports_includes \in BOOLEAN
    /\ n_expose \in BOOLEAN
    /\ n_permissions \in (IF n_expose THEN {<<"r">>, <<"w">>, RW} ELSE {RW})
    /\ r_hidden \in (IF supports_includes THEN {"no", "exclude_rels", "target", "expose"}
                     ELSE {"no"})
    /\ columns_cache = Absent
    /\ attrs_cache = Absent
    /\ ret = NoRet
    \* the other parts, idle
    /\ pc = "idle"
    /\ level = LoggingDEBUG
    /\ result = NoValue
    /\ exc = NoException
    /\ raisedBy = NoValue
    /\ handled = NotHandled
    /\ trace = <<>>
    /\ outcome = NoOutcome
    /\ graph = {}
    /\ include_arg = Absent
    /\ exclude_rels = {}
    /\ enable_relationships = TRUE
    /\ primary = <<>>
    /\ ipc = "idle"
    /\ ja_data = {}
    /\ ja_included = {}
    /\ included_list = [i \in Instances |-> Absent]
    /\ data_out = <<>>
    /\ included_out = <<>>
    /\ raised = NoError
    /\ call = NoCall

SpecAttrs == InitAttrs /\ [][NextAttrs]_vars

=============================================================================
